---- MODULE Spec2Model ----
(***************************************************************************)
(* A model of the control and data flow of nlp-toolkit's teaching examples: *)
(*   - nlptoolkit/models/rnn/rnn.py      RNNCell, _get_activation_fn        *)
(*   - nlptoolkit/models/seq2seq/rnn_mt.py   RNNSeq2Seq.forward             *)
(*   - examples/language_model/glove.py  the GloVe training script          *)
(* Tensors are modelled by their shape and, where the code reads them, by   *)
(* small integer contents.  The three programs do not interact; each has a  *)
(* specification of its own (SpecCell, SpecSeq, SpecGlove).                 *)
(***************************************************************************)
EXTENDS Integers, Sequences, FiniteSets, TLC

VARIABLES
    \* ---- rnn.py ----
    cell,        \* the RNNCell object (NoCell before construction)
    call,        \* the arguments of the last RNNCell.forward call
    result,      \* what the last RNNCell.forward call did
    act,         \* the last _get_activation_fn call and what it did
    \* ---- rnn_mt.py: one call of RNNSeq2Seq.forward ----
    s_pc,        \* "start", "loop" (before an iteration's test), "done"
    trg,         \* the target tensor [trg len, batch size], rows of tokens
    ratio,       \* teacher_forcing_ratio, in units of 1/Res
    outputs,     \* the tensor of decoder outputs
    context,     \* the local context
    hidden,      \* the local hidden
    input,       \* the local input: a row of tokens and where it came from
    t,           \* the loop variable
    encLog,      \* history: the hidden state each encoder call returned
    decLog,      \* history: each decoder call, arguments and results
    tfLog,       \* history: teacher_force of each iteration
    writes,      \* history: how often each row of outputs was assigned
    returned,    \* the returned tensor (NoTensor before the return)
    \* ---- glove.py: one run of the script ----
    g_pc,        \* the script's position
    loader,      \* data_loader: the sequence of batches (built at line 36)
    params,      \* the model's parameters: w, c, bw, bc
    grads,       \* the parameters' .grad
    epoch,       \* the outer loop variable
    idx,         \* how many batches of this epoch the inner loop has taken
    ops,         \* history: the optimizer/autograd calls of the current batch
    visits,      \* history: how often this epoch took each batch
    stepCount,   \* history: optimizer.step calls so far
    saved        \* history: the save_pretrained calls made

cellVars == <<cell, call, result, act>>
seqVars == <<s_pc, trg, ratio, outputs, context, hidden, input, t,
             encLog, decLog, tfLog, writes, returned>>
gloveVars == <<g_pc, loader, params, grads, epoch, idx, ops, visits,
               stepCount, saved>>
vars == <<cellVars, seqVars, gloveVars>>

(***************************************************************************)
(* Bounds                                                                   *)
(***************************************************************************)
\* largest input_size / hidden_size / batch dimension tried for RNNCell
MaxSize == 2

Sizes == 1..MaxSize

\* longest target sequence (trg len) tried for RNNSeq2Seq.forward
MaxTrgLen == 3

\* random.random() is drawn from {0/Res, ..., (Res-1)/Res}, a grid on [0, 1)
Res == 2

\* len(vocab) in the GloVe script
VocabSize == 2

\* the embedding vectors' length tried (the script's embedding_dim is 64)
EmbDim == 2

\* most batches the data loader yields per epoch
MaxBatches == 2

\* the strings tried as nonlinearity / activation name
Nonlinearities == {"tanh", "relu", "sigmoid"}

(***************************************************************************)
(* Tensors: a shape and a description of the data.                          *)
(***************************************************************************)
None == [shape |-> <<>>, data |-> "None"]

Tensor(shape, data) == [shape |-> shape, data |-> data]

\* torch.Tensor.size(dim), dim counted from 0
size(x, dim) == x.shape[dim + 1]

\* input.new_zeros(rows, cols)
new_zeros(rows, cols) == Tensor(<<rows, cols>>, "zeros")

\* the GloVe model's parameters before the model exists
NoParams == [w |-> <<>>, c |-> <<>>, bw |-> <<>>, bc |-> <<>>]

\* nn.Parameter(torch.Tensor(*shape)) after reset_parameters' uniform_
Parameter(shape) == Tensor(shape, "uniform")

(***************************************************************************)
(* rnn.py: _get_activation_fn                                               *)
(***************************************************************************)
Raise(msg) == [kind |-> "raise", error |-> msg, func |-> "-", args |-> <<>>]

Return(f) == [kind |-> "return", error |-> "-", func |-> f, args |-> <<>>]

CallCell(f, args) == [kind |-> "return", error |-> "-", func |-> f, args |-> args]

NoResult == [kind |-> "none", error |-> "-", func |-> "-", args |-> <<>>]

get_activation_fn(activation) ==
    IF activation = "relu" THEN Return("F.relu")
    ELSE IF activation = "tanh" THEN Return("F.tanh")
    ELSE Raise("activation should be relu/tanh")

(***************************************************************************)
(* rnn.py: RNNCellBase and RNNCell                                          *)
(***************************************************************************)
NoCell == [input_size |-> 0, hidden_size |-> 0, bias |-> FALSE,
           nonlinearity |-> "-", weight_ih |-> None, weight_hh |-> None,
           bias_ih |-> None, bias_hh |-> None]

\* RNNCell.__init__: no argument is validated
RNNCell_init(input_size, hidden_size, bias, nonlinearity) ==
    [input_size |-> input_size,
     hidden_size |-> hidden_size,
     bias |-> bias,
     nonlinearity |-> nonlinearity,
     weight_ih |-> Parameter(<<hidden_size, input_size>>),
     weight_hh |-> Parameter(<<hidden_size, hidden_size>>),
     bias_ih |-> IF bias THEN Parameter(<<hidden_size>>) ELSE None,
     bias_hh |-> IF bias THEN Parameter(<<hidden_size>>) ELSE None]

\* "ok", or the RuntimeError raised
check_forward_input(self, inp) ==
    IF size(inp, 1) # self.input_size
    THEN "input has inconsistent input_size"
    ELSE "ok"

\* a plausible slip: the two checks in the other order
check_forward_hidden_swapped(self, inp, hx) ==
    IF size(hx, 1) # self.hidden_size
    THEN "hidden has inconsistent hidden_size"
    ELSE IF size(inp, 0) # size(hx, 0)
    THEN "Input batch size doesn't match hidden batch size"
    ELSE "ok"

check_forward_hidden(self, inp, hx) ==
    IF size(inp, 0) # size(hx, 0)
    THEN "Input batch size doesn't match hidden batch size"
    ELSE IF size(hx, 1) # self.hidden_size
    THEN "hidden has inconsistent hidden_size"
    ELSE "ok"

\* a plausible slip: the zeros take input.size(1) rows
default_hx_rows_from_features(self, inp, hx) ==
    IF hx = None THEN new_zeros(size(inp, 1), self.hidden_size) ELSE hx

\* the hidden state forward works with: hx, or zeros when hx is None
default_hx(self, inp, hx) ==
    IF hx = None THEN new_zeros(size(inp, 0), self.hidden_size) ELSE hx

\* a plausible slip: an unknown nonlinearity falls back to tanh
select_func_fallback(self) ==
    IF self.nonlinearity = "relu" THEN "RNNReLUCell" ELSE "RNNTanhCell"

\* the cell function selected by self.nonlinearity, "-" when there is none
select_func(self) ==
    IF self.nonlinearity = "tanh" THEN "RNNTanhCell"
    ELSE IF self.nonlinearity = "relu" THEN "RNNReLUCell"
    ELSE "-"

RNNCell_forward(self, inp, hx) ==
    IF check_forward_input(self, inp) # "ok"
    THEN Raise(check_forward_input(self, inp))
    ELSE LET h == default_hx(self, inp, hx) IN
         IF check_forward_hidden(self, inp, h) # "ok"
         THEN Raise(check_forward_hidden(self, inp, h))
         ELSE IF select_func(self) = "-"
         THEN Raise("Unknown nonlinearity")
         ELSE CallCell(select_func(self),
                       <<inp, h, self.weight_ih, self.weight_hh,
                         self.bias_ih, self.bias_hh>>)

\* the 2-D tensors tried as inp and as hx
Inputs == {Tensor(<<b, f>>, "x") : b \in Sizes, f \in Sizes}

Hiddens == {None} \cup {Tensor(<<b, h>>, d) : b \in Sizes, h \in Sizes,
                                             d \in {"zeros", "h"}}

NoCall == [input |-> None, hx |-> None]

NoAct == [arg |-> "-", ret |-> NoResult]

\* rnn = RNNCell(input_size, hidden_size, bias, nonlinearity)
Construct ==
    \E i \in Sizes, h \in Sizes, b \in BOOLEAN, n \in Nonlinearities :
        /\ cell = NoCell
        /\ cell' = RNNCell_init(i, h, b, n)
        /\ call' = NoCall
        /\ result' = NoResult
        /\ UNCHANGED <<act, seqVars, gloveVars>>

\* rnn(inp, hx)
Forward ==
    \E inp \in Inputs, hx \in Hiddens :
        /\ cell # NoCell
        /\ call' = [input |-> inp, hx |-> hx]
        /\ result' = RNNCell_forward(cell, inp, hx)
        /\ UNCHANGED <<cell, act, seqVars, gloveVars>>

\* _get_activation_fn(activation)
GetActivationFn ==
    \E a \in Nonlinearities :
        /\ act' = [arg |-> a, ret |-> get_activation_fn(a)]
        /\ UNCHANGED <<cell, call, result, seqVars, gloveVars>>

CellNext == Construct \/ Forward \/ GetActivationFn

(***************************************************************************)
(* rnn_mt.py: RNNSeq2Seq.forward                                            *)
(* A token row is a sequence over the batch; a prediction is, per batch     *)
(* element, a sequence of trg_vocab_size scores.  Hidden states are named   *)
(* by the call that returned them: 0 is the encoder's final hidden state,   *)
(* k > 0 the hidden state returned by the k-th decoder call.                *)
(***************************************************************************)
\* self.trg_vocab_size; tokens are 0 .. trg_vocab_size - 1
trg_vocab_size == 2

Tok == 0..(trg_vocab_size - 1)

\* batch sizes tried
BatchSizes == {1, 2}

\* the scores a prediction holds for one batch element: a tie, which is also
\* the all-zero row (argmax 0), and a proper maximum (argmax 1)
Scores == {<<0, 0>>, <<0, 1>>}

NoTensor == <<>>

TokenRows(b) == [1..b -> Tok]

Predictions(b) == [1..b -> Scores]

\* torch.zeros(trg_len, batch_size, trg_vocab_size)
zeros3(n, b, v) == [i \in 1..n |-> [j \in 1..b |-> [k \in 1..v |-> 0]]]

\* shape of a 3-D tensor with at least one row
shape3(x) == <<Len(x), Len(x[1]), Len(x[1][1])>>

\* x[i] with Python's index from 0
Row(x, i) == x[i + 1]

\* index (from 0) of the first maximal score
argmax_scores(sc) ==
    CHOOSE v \in Tok :
        /\ \A w \in Tok : sc[w + 1] <= sc[v + 1]
        /\ \A w \in Tok : w < v => sc[w + 1] < sc[v + 1]

\* output.argmax(1): one token per batch element
argmax1(output) == [b \in DOMAIN output |-> argmax_scores(output[b])]

\* a plausible slip: <= in place of <
teacher_force_le(draw, r) == draw <= r

\* random.random() < teacher_forcing_ratio
teacher_force(draw, r) == draw < r

\* a plausible slip: the branches exchanged
next_input_swapped(tf, i, top1) ==
    IF tf THEN [val |-> top1, origin |-> <<"top1", i>>]
    ELSE [val |-> Row(trg, i), origin |-> <<"trg", i>>]

\* input = trg[t] if teacher_force else top1
next_input(tf, i, top1) ==
    IF tf THEN [val |-> Row(trg, i), origin |-> <<"trg", i>>]
    ELSE [val |-> top1, origin |-> <<"top1", i>>]

\* a plausible slip: the decoder is conditioned on hidden, not on context
decoder_args_no_context(inp, hid, ctx) ==
    [input |-> inp, hidden |-> hid, context |-> hid]

\* the arguments of self.decoder(input, hidden, context)
decoder_args(inp, hid, ctx) ==
    [input |-> inp, hidden |-> hid, context |-> ctx]

\* a plausible slip: the loop stops one iteration early
in_range_short(i, n) == 1 <= i /\ i < n - 1

\* t in range(1, trg_len)
in_range(i, n) == 1 <= i /\ i < n

NoInput == [val |-> <<>>, origin |-> <<"none", 0>>]

SeqInit ==
    /\ cell = NoCell /\ call = NoCall /\ result = NoResult /\ act = NoAct
    /\ g_pc = "idle" /\ loader = <<>> /\ params = NoParams /\ grads = NoParams
    /\ epoch = 0 /\ idx = 0 /\ ops = <<>> /\ visits = <<>> /\ stepCount = 0
    /\ saved = <<>>
    /\ s_pc = "start"
    /\ \E n \in 1..MaxTrgLen, b \in BatchSizes : trg \in [1..n -> TokenRows(b)]
    /\ ratio \in 0..Res
    /\ outputs = NoTensor
    /\ context = -1
    /\ hidden = -1
    /\ input = NoInput
    /\ t = 0
    /\ encLog = <<>>
    /\ decLog = <<>>
    /\ tfLog = <<>>
    /\ writes = <<>>
    /\ returned = NoTensor

\* lines 142-157: allocate outputs, run the encoder, set hidden and input
SeqStart ==
    /\ s_pc = "start"
    /\ LET batch_size == Len(trg[1])
           trg_len == Len(trg)
           enc_hidden == 0
       IN  /\ outputs' = zeros3(trg_len, batch_size, trg_vocab_size)
           /\ writes' = [i \in 1..trg_len |-> 0]
           /\ encLog' = Append(encLog, enc_hidden)
           /\ context' = enc_hidden
           /\ hidden' = enc_hidden
    /\ input' = [val |-> Row(trg, 0), origin |-> <<"trg", 0>>]
    /\ t' = 1
    /\ s_pc' = "loop"
    /\ UNCHANGED <<trg, ratio, decLog, tfLog, returned, cellVars, gloveVars>>

\* lines 159-176: one iteration of the loop
SeqStep ==
    /\ s_pc = "loop"
    /\ in_range(t, Len(trg))
    /\ \E output \in Predictions(Len(trg[1])), draw \in 0..(Res - 1) :
          LET new_hidden == Len(decLog) + 1
              tf == teacher_force(draw, ratio)
              top1 == argmax1(output)
          IN  /\ decLog' = Append(decLog,
                     [args |-> decoder_args(input, hidden, context),
                      output |-> output, hidden |-> new_hidden])
              /\ hidden' = new_hidden
              /\ outputs' = [outputs EXCEPT ![t + 1] = output]
              /\ writes' = [writes EXCEPT ![t + 1] = @ + 1]
              /\ tfLog' = Append(tfLog, tf)
              /\ input' = next_input(tf, t, top1)
    /\ t' = t + 1
    /\ UNCHANGED <<s_pc, trg, ratio, context, encLog, returned, cellVars,
                   gloveVars>>

\* line 178: return outputs
SeqReturn ==
    /\ s_pc = "loop"
    /\ ~in_range(t, Len(trg))
    /\ returned' = outputs
    /\ s_pc' = "done"
    /\ UNCHANGED <<trg, ratio, outputs, context, hidden, input, t,
                   encLog, decLog, tfLog, writes, cellVars, gloveVars>>

SeqNext == SeqStart \/ SeqStep \/ SeqReturn

(***************************************************************************)
(* glove.py: the training script                                            *)
(* Parameters are integer tensors.  A batch is one (word, context, count)   *)
(* sample; the regression target log(count) is the integer ilog(count).     *)
(* The loss of lines 63-66 is weight * residual^2 with weight > 0, so its   *)
(* gradient has the sign of residual * the other factor; Adam's step is     *)
(* modelled by its direction: each entry moves by -sign(grad), in units of  *)
(* the learning rate.                                                       *)
(***************************************************************************)
num_epoch == 10

Vocab == 1..VocabSize

Dims == 1..EmbDim

\* vocab: the tokens, by index
vocab == [v \in Vocab |-> v - 1]

\* the corpus' co-occurrence counts (GloveDataset)
Cooc(w, c) == IF w = c THEN 3 ELSE 1

\* integer part of torch.log(counts) for the counts above
ilog(n) == IF n >= 3 THEN 1 ELSE 0

Samples == {[word |-> w, context |-> c, count |-> Cooc(w, c)] : w \in Vocab, c \in Vocab}

\* the values nn.Embedding's initialisation may fill a matrix with
InitVals == {0, 1}

Matrix(x) == [v \in Vocab |-> [d \in Dims |-> x]]

Vector(x) == [v \in Vocab |-> x]

\* GloveModel(len(vocab), embedding_dim)
GloveModel(w0, c0) == [w |-> Matrix(w0), c |-> Matrix(c0),
                       bw |-> Vector(0), bc |-> Vector(0)]

ZeroGrads == [w |-> Matrix(0), c |-> Matrix(0), bw |-> Vector(0), bc |-> Vector(0)]

RECURSIVE dot_upto(_, _, _)
dot_upto(a, b, d) == IF d = 0 THEN 0 ELSE a[d] * b[d] + dot_upto(a, b, d - 1)

\* torch.sum(word_embeds * context_embeds, dim=1)
dot(a, b) == dot_upto(a, b, EmbDim)

sgn(x) == IF x > 0 THEN 1 ELSE IF x < 0 THEN -1 ELSE 0

\* lines 52-64: the term squared in the loss
residual(p, s) ==
    dot(p.w[s.word], p.c[s.context]) + p.bw[s.word] + p.bc[s.context]
        - ilog(s.count)

\* wavg_loss.backward(): the gradient is added to .grad
backward(g, p, s) ==
    LET r == residual(p, s) IN
    [w  |-> [g.w EXCEPT ![s.word] = [d \in Dims |-> @[d] + r * p.c[s.context][d]]],
     c  |-> [g.c EXCEPT ![s.context] = [d \in Dims |-> @[d] + r * p.w[s.word][d]]],
     bw |-> [g.bw EXCEPT ![s.word] = @ + r],
     bc |-> [g.bc EXCEPT ![s.context] = @ + r]]

\* optimizer.step()
step(p, g) ==
    [w  |-> [v \in Vocab |-> [d \in Dims |-> p.w[v][d] - sgn(g.w[v][d])]],
     c  |-> [v \in Vocab |-> [d \in Dims |-> p.c[v][d] - sgn(g.c[v][d])]],
     bw |-> [v \in Vocab |-> p.bw[v] - sgn(g.bw[v])],
     bc |-> [v \in Vocab |-> p.bc[v] - sgn(g.bc[v])]]

\* model.w_embeddings.weight + model.c_embeddings.weight
combined_embeds(p) == [v \in Vocab |-> [d \in Dims |-> p.w[v][d] + p.c[v][d]]]

\* the call save_pretrained(vocab, combined_embeds.data, 'glove.vec')
save_pretrained(voc, embeds, path) ==
    [vocab |-> voc, embeds |-> embeds, path |-> path]

\* a plausible slip: one epoch too few
epoch_in_range_short(e) == e < num_epoch - 1

\* epoch in range(num_epoch)
epoch_in_range(e) == e < num_epoch

GloveInit ==
    /\ cell = NoCell /\ call = NoCall /\ result = NoResult /\ act = NoAct
    /\ s_pc = "idle" /\ trg = NoTensor /\ ratio = 0 /\ outputs = NoTensor
    /\ context = -1 /\ hidden = -1 /\ input = NoInput /\ t = 0
    /\ encLog = <<>> /\ decLog = <<>> /\ tfLog = <<>> /\ writes = <<>>
    /\ returned = NoTensor
    /\ g_pc = "build"
    /\ loader = <<>>
    /\ params = NoParams
    /\ grads = NoParams
    /\ epoch = 0
    /\ idx = 0
    /\ ops = <<>>
    /\ visits = <<>>
    /\ stepCount = 0
    /\ saved = <<>>

\* lines 34-36: load the corpus, build the dataset and the loader
Build ==
    /\ g_pc = "build"
    /\ \E n \in 0..MaxBatches : loader' \in [1..n -> Samples]
    /\ g_pc' = "setup"
    /\ UNCHANGED <<params, grads, epoch, idx, ops, visits, stepCount, saved,
                   cellVars, seqVars>>

\* lines 38-43: create the model and the optimizer
Setup ==
    /\ g_pc = "setup"
    /\ \E w0 \in InitVals, c0 \in InitVals : params' = GloveModel(w0, c0)
    /\ grads' = ZeroGrads
    /\ epoch' = 0
    /\ g_pc' = "epoch"
    /\ UNCHANGED <<loader, idx, ops, visits, stepCount, saved, cellVars, seqVars>>

\* lines 44-45: the outer loop enters an epoch
EpochBegin ==
    /\ g_pc = "epoch"
    /\ epoch_in_range(epoch)
    /\ idx' = 0
    /\ visits' = [b \in DOMAIN loader |-> 0]
    /\ g_pc' = "batch"
    /\ UNCHANGED <<loader, params, grads, epoch, ops, stepCount, saved,
                   cellVars, seqVars>>

\* lines 46-60: the inner loop takes the next batch and runs the forward pass
NextBatch ==
    /\ g_pc = "batch"
    /\ idx < Len(loader)
    /\ idx' = idx + 1
    /\ visits' = [visits EXCEPT ![idx + 1] = @ + 1]
    /\ ops' = <<>>
    /\ g_pc' = "zero_grad"
    /\ UNCHANGED <<loader, params, grads, epoch, stepCount, saved,
                   cellVars, seqVars>>

\* line 61: optimizer.zero_grad()
ZeroGrad ==
    /\ g_pc = "zero_grad"
    /\ grads' = ZeroGrads
    /\ ops' = Append(ops, "zero_grad")
    /\ g_pc' = "backward"
    /\ UNCHANGED <<loader, params, epoch, idx, visits, stepCount, saved,
                   cellVars, seqVars>>

\* lines 63-67: the weighted loss and wavg_loss.backward()
Backward ==
    /\ g_pc = "backward"
    /\ grads' = backward(grads, params, loader[idx])
    /\ ops' = Append(ops, "backward")
    /\ g_pc' = "step"
    /\ UNCHANGED <<loader, params, epoch, idx, visits, stepCount, saved,
                   cellVars, seqVars>>

\* lines 68-69: optimizer.step()
Step ==
    /\ g_pc = "step"
    /\ params' = step(params, grads)
    /\ ops' = Append(ops, "step")
    /\ stepCount' = stepCount + 1
    /\ g_pc' = "batch"
    /\ UNCHANGED <<loader, grads, epoch, idx, visits, saved, cellVars, seqVars>>

\* line 70: the loader is exhausted, the epoch ends
EpochEnd ==
    /\ g_pc = "batch"
    /\ idx >= Len(loader)
    /\ epoch' = epoch + 1
    /\ g_pc' = "epoch"
    /\ UNCHANGED <<loader, params, grads, idx, ops, visits, stepCount, saved,
                   cellVars, seqVars>>

\* lines 73-74: combine the two embedding matrices and save them
Save ==
    /\ g_pc = "epoch"
    /\ ~epoch_in_range(epoch)
    /\ saved' = Append(saved, save_pretrained(vocab, combined_embeds(params),
                                             "glove.vec"))
    /\ g_pc' = "done"
    /\ UNCHANGED <<loader, params, grads, epoch, idx, ops, visits, stepCount,
                   cellVars, seqVars>>

GloveNext ==
    \/ Build \/ Setup \/ EpochBegin \/ NextBatch \/ ZeroGrad \/ Backward
    \/ Step \/ EpochEnd \/ Save

CellInit ==
    /\ cell = NoCell /\ call = NoCall /\ result = NoResult /\ act = NoAct
    /\ g_pc = "idle" /\ loader = <<>> /\ params = NoParams /\ grads = NoParams
    /\ epoch = 0 /\ idx = 0 /\ ops = <<>> /\ visits = <<>> /\ stepCount = 0
    /\ saved = <<>>
    /\ s_pc = "idle" /\ trg = NoTensor /\ ratio = 0 /\ outputs = NoTensor
    /\ context = -1 /\ hidden = -1 /\ input = NoInput /\ t = 0
    /\ encLog = <<>> /\ decLog = <<>> /\ tfLog = <<>> /\ writes = <<>>
    /\ returned = NoTensor

SpecCell == CellInit /\ [][CellNext]_vars

SpecSeq == SeqInit /\ [][SeqNext]_vars

SpecGlove == GloveInit /\ [][GloveNext]_vars

(***************************************************************************)
(* Properties of rnn.py, checked under SpecCell                             *)
(***************************************************************************)
E_input == "input has inconsistent input_size"
E_batch == "Input batch size doesn't match hidden batch size"
E_hidden == "hidden has inconsistent hidden_size"
E_nonlin == "Unknown nonlinearity"

Called == cell # NoCell /\ call # NoCall

\* the last forward call's arguments pass both shape checks
ShapeValid ==
    /\ size(call.input, 1) = cell.input_size
    /\ \/ call.hx = None
       \/ /\ size(call.hx, 0) = size(call.input, 0)
          /\ size(call.hx, 1) = cell.hidden_size

\* C3: with shape-valid arguments RNNCell.forward calls RNNTanhCell for
\* 'tanh', RNNReLUCell for 'relu', and for every other string raises
\* 'Unknown nonlinearity' with no cell function called; _get_activation_fn
\* returns relu for 'relu', tanh for 'tanh' and raises for everything else.
C3_Dispatch ==
    /\ (Called /\ ShapeValid) =>
          /\ cell.nonlinearity = "tanh" =>
                result.kind = "return" /\ result.func = "RNNTanhCell"
          /\ cell.nonlinearity = "relu" =>
                result.kind = "return" /\ result.func = "RNNReLUCell"
          /\ cell.nonlinearity \notin {"tanh", "relu"} =>
                /\ result.kind = "raise" /\ result.error = E_nonlin
                /\ result.func = "-" /\ result.args = <<>>
    /\ act.arg = "relu" => act.ret.kind = "return" /\ act.ret.func = "F.relu"
    /\ act.arg = "tanh" => act.ret.kind = "return" /\ act.ret.func = "F.tanh"
    /\ act.arg \notin {"-", "relu", "tanh"} =>
          act.ret.kind = "raise" /\ act.ret.func = "-"

C3_Witness ==
    /\ Called /\ ShapeValid
    /\ cell.nonlinearity = "sigmoid"
    /\ result.kind = "raise" /\ result.error = E_nonlin
    /\ act.arg = "sigmoid" /\ act.ret.kind = "raise"

\* C5: forward with hx = None and an input of input_size features never
\* raises a hidden-shape error, and does exactly what the call with an
\* explicit all-zero hidden tensor of shape (input.size(0), hidden_size) does.
C5_DefaultHidden ==
    (Called /\ call.hx = None /\ size(call.input, 1) = cell.input_size) =>
        /\ result.error \notin {E_input, E_batch, E_hidden}
        /\ result = RNNCell_forward(cell, call.input,
                       Tensor(<<size(call.input, 0), cell.hidden_size>>, "zeros"))
        /\ result.kind = "return" =>
              result.args[2] =
                 Tensor(<<size(call.input, 0), cell.hidden_size>>, "zeros")

C5_Witness ==
    /\ Called /\ call.hx = None
    /\ size(call.input, 1) = cell.input_size
    /\ size(call.input, 0) # cell.input_size
    /\ cell.input_size # cell.hidden_size
    /\ result.kind = "return"

\* C6 (as documented): weight_ih has shape (input_size x hidden_size),
\* weight_hh (hidden_size x hidden_size), and with bias both biases
\* have shape (hidden_size).
C6_DocumentedShapes ==
    cell # NoCell =>
        /\ cell.weight_ih.shape = <<cell.input_size, cell.hidden_size>>
        /\ cell.weight_hh.shape = <<cell.hidden_size, cell.hidden_size>>
        /\ cell.bias => /\ cell.bias_ih.shape = <<cell.hidden_size>>
                        /\ cell.bias_hh.shape = <<cell.hidden_size>>

\* the RuntimeError the documented order of checks gives, "-" when none fails
FirstFailingCheck ==
    LET h == IF call.hx = None
             THEN Tensor(<<size(call.input, 0), cell.hidden_size>>, "zeros")
             ELSE call.hx
    IN  IF size(call.input, 1) # cell.input_size THEN E_input
        ELSE IF size(call.input, 0) # size(h, 0) THEN E_batch
        ELSE IF size(h, 1) # cell.hidden_size THEN E_hidden
        ELSE IF cell.nonlinearity \notin {"tanh", "relu"} THEN E_nonlin
        ELSE "-"

\* C8: forward raises exactly when one of the four checks fails, the error
\* is that of the first failing check in the order input_size, batch size,
\* hidden_size, nonlinearity, no cell function is called then, the
\* constructor takes any nonlinearity, and the cell is as constructed
\* after every forward.
C8_CheckOrder ==
    /\ Called =>
          /\ result.kind = "raise" <=> FirstFailingCheck # "-"
          /\ result.kind = "raise" =>
                /\ result.error = FirstFailingCheck
                /\ result.func = "-" /\ result.args = <<>>
          /\ result.kind = "return" <=> FirstFailingCheck = "-"
    /\ cell # NoCell =>
          cell = RNNCell_init(cell.input_size, cell.hidden_size, cell.bias,
                              cell.nonlinearity)

C8_Witness ==
    /\ Called
    /\ cell.nonlinearity = "sigmoid"
    /\ call.hx # None
    /\ size(call.input, 1) = cell.input_size
    /\ size(call.input, 0) # size(call.hx, 0)
    /\ size(call.hx, 1) # cell.hidden_size
    /\ result.kind = "raise" /\ result.error = E_batch

(***************************************************************************)
(* Properties of RNNSeq2Seq.forward, checked under SpecSeq                  *)
(***************************************************************************)
\* the input of the k-th decoder call (k = the loop's t)
Fed(k) == decLog[k].args.input

Calls == 1..Len(decLog)

\* C1: the first decoder call receives trg[0] whatever the ratio; call
\* k >= 2 receives trg[k-1] when teacher forcing was drawn at iteration k-1
\* and argmax(outputs[k-1]) otherwise; nothing else is fed.
C1_DecoderInputs ==
    \A k \in Calls :
        /\ k = 1 => Fed(k) = [val |-> Row(trg, 0), origin |-> <<"trg", 0>>]
        /\ (k >= 2 /\ tfLog[k - 1]) =>
              Fed(k) = [val |-> Row(trg, k - 1), origin |-> <<"trg", k - 1>>]
        /\ (k >= 2 /\ ~tfLog[k - 1]) =>
              Fed(k) = [val |-> argmax1(Row(outputs, k - 1)),
                        origin |-> <<"top1", k - 1>>]

C1_Witness ==
    /\ s_pc = "done" /\ Len(decLog) = 2
    /\ 0 < ratio /\ ratio < Res
    /\ ~tfLog[1]
    /\ Fed(2).val # Row(trg, 1)
    /\ Fed(2).val = argmax1(Row(outputs, 1))

\* C2: the encoder runs once, its final hidden state is the context, the
\* decoder's hidden state before the first call is that context, every
\* decoder call gets that same context, and call k >= 2 gets the hidden
\* state call k-1 returned.
C2_ContextAndHidden ==
    /\ s_pc = "start" => encLog = <<>> /\ decLog = <<>>
    /\ s_pc \in {"loop", "done"} =>
          /\ Len(encLog) = 1
          /\ context = encLog[1]
          /\ decLog = <<>> => hidden = encLog[1]
          /\ \A k \in Calls :
                /\ decLog[k].args.context = encLog[1]
                /\ k = 1 => decLog[k].args.hidden = encLog[1]
                /\ k >= 2 => decLog[k].args.hidden = decLog[k - 1].hidden

C2_Witness ==
    /\ s_pc = "done" /\ Len(decLog) = 2
    /\ decLog[2].args.hidden # decLog[2].args.context
    /\ decLog[2].args.context = encLog[1]

\* C7: forward returns after exactly trg_len - 1 decoder calls; the result
\* has shape [trg_len, batch_size, trg_vocab_size]; row 0 is never written
\* and is all zeros; row k in 1..trg_len-1 is written once, with the
\* prediction of decoder call k; trg[trg_len-1] is never fed to the decoder.
C7_CallsAndOutputs ==
    /\ s_pc # "done" => ENABLED SeqNext
    /\ s_pc = "loop" => t = Len(decLog) + 1 /\ t <= Len(trg)
    /\ s_pc = "done" =>
          /\ Len(decLog) = Len(trg) - 1
          /\ returned = outputs
          /\ shape3(returned) = <<Len(trg), Len(trg[1]), trg_vocab_size>>
    /\ s_pc \in {"loop", "done"} =>
          /\ writes[1] = 0
          /\ \A b \in DOMAIN Row(outputs, 0) :
                \A v \in DOMAIN Row(outputs, 0)[b] : Row(outputs, 0)[b][v] = 0
          /\ \A k \in Calls :
                writes[k + 1] = 1 /\ Row(outputs, k) = decLog[k].output
          /\ \A i \in 1..(Len(trg) - 1) : i \notin Calls => writes[i + 1] = 0
    /\ \A k \in Calls : Fed(k).origin # <<"trg", Len(trg) - 1>>

C7_Witness ==
    /\ s_pc = "done" /\ Len(trg) = 3 /\ Len(trg[1]) = 2
    /\ tfLog[2]
    /\ input.origin = <<"trg", 2>>
    /\ Row(outputs, 1) = Row(outputs, 0)
    /\ Row(outputs, 2) # Row(outputs, 0)

\* C9: with teacher_forcing_ratio = 1.0 (Res/Res) teacher forcing is drawn
\* at every step and every decoder input after the first is trg[k-1]; with
\* 0.0 it is never drawn and every such input is argmax(outputs[k-1]): in
\* both cases the inputs are a function of trg and the decoder's outputs,
\* whatever random.random() returned.
C9_BoundaryRatios ==
    /\ ratio = Res =>
          /\ \A i \in 1..Len(tfLog) : tfLog[i]
          /\ \A k \in Calls : k >= 2 =>
                Fed(k) = [val |-> Row(trg, k - 1), origin |-> <<"trg", k - 1>>]
    /\ ratio = 0 =>
          /\ \A i \in 1..Len(tfLog) : ~tfLog[i]
          /\ \A k \in Calls : k >= 2 =>
                Fed(k) = [val |-> argmax1(Row(outputs, k - 1)),
                          origin |-> <<"top1", k - 1>>]

C9_Witness ==
    /\ s_pc = "done" /\ Len(decLog) = 2 /\ ratio = Res
    /\ Fed(2).val = Row(trg, 1)
    /\ Fed(2).val # argmax1(Row(outputs, 1))

(***************************************************************************)
(* Properties of the GloVe script, checked under SpecGlove                  *)
(***************************************************************************)
BatchOps == <<"zero_grad", "backward", "step">>

\* C4: the dataset is built before any training step; training runs
\* num_epoch epochs, each taking every batch of the loader once; per batch
\* the order is zero_grad, backward, step, with one step per batch; the
\* embeddings are saved once, after the last batch of the last epoch, as
\* the element-wise sum of the two embedding matrices, with the vocabulary.
C4_PhaseOrder ==
    /\ g_pc \in {"build", "setup"} => stepCount = 0 /\ ops = <<>>
    /\ ops \in {SubSeq(BatchOps, 1, n) : n \in 0..3}
    /\ g_pc = "zero_grad" => ops = <<>>
    /\ g_pc = "backward" => ops = <<"zero_grad">>
    /\ g_pc = "step" =>
          /\ ops = <<"zero_grad", "backward">>
          /\ grads = backward(ZeroGrads, params, loader[idx])
    /\ (g_pc \in {"batch", "epoch", "done"} /\ stepCount > 0) => ops = BatchOps
    /\ epoch <= num_epoch
    /\ g_pc \in {"zero_grad", "backward", "step"} =>
          stepCount = epoch * Len(loader) + idx - 1
    /\ g_pc = "batch" => stepCount = epoch * Len(loader) + idx
    /\ g_pc \in {"epoch", "done"} => stepCount = epoch * Len(loader)
    /\ g_pc \in {"batch", "zero_grad", "backward", "step"} =>
          \A b \in DOMAIN loader : visits[b] = IF b <= idx THEN 1 ELSE 0
    /\ (g_pc = "epoch" /\ epoch > 0) => \A b \in DOMAIN loader : visits[b] = 1
    /\ g_pc # "done" => saved = <<>>
    /\ g_pc = "done" =>
          /\ epoch = num_epoch
          /\ stepCount = num_epoch * Len(loader)
          /\ Len(saved) = 1
          /\ saved[1].vocab = vocab
          /\ saved[1].embeds =
                [v \in Vocab |-> [d \in Dims |-> params.w[v][d] + params.c[v][d]]]

C4_Witness ==
    /\ g_pc = "done"
    /\ Len(loader) = MaxBatches
    /\ stepCount = num_epoch * MaxBatches
    /\ Len(saved) = 1
    /\ saved[1].embeds # params.w
    /\ saved[1].embeds # params.c
    /\ \A x \in InitVals : params.w # Matrix(x) /\ params.c # Matrix(x)

====
